---- MODULE Spec2Model ----
(***************************************************************************)
(* A model of json_test_data.py: the corpus builder (the test_object      *)
(* literal and the two append-after-construction steps) and the emission   *)
(* driver (the per-entry loop and the final print).                        *)
(*                                                                         *)
(* Integers of the corpus reach 2^100000, so an integer is kept as a       *)
(* numeral  sign * (2^e + d)  with d in {-1, 0}: every range end point of  *)
(* the source is of that form.  A list is kept as its length and the       *)
(* cycle of items it repeats ([v]*n repeats one item; a comprehension      *)
(* over the random source repeats with the period of the source).          *)
(***************************************************************************)
EXTENDS Integers, Sequences, FiniteSets, TLC

VARIABLES pc, intMaxStrDigits, rng, heap, multi_type_array_3, it, out,
          emitted, maxConv, failed

vars == <<pc, intMaxStrDigits, rng, heap, multi_type_array_3, it, out,
          emitted, maxConv, failed>>

(***************************************************************************)
(* Bounds and constants                                                    *)
(***************************************************************************)
\* period of the modelled random source; its seeds are 0 .. RngPeriod-1
RngPeriod == 5

\* INT_UPPER_LIMIT = 2**100_000, kept as its exponent
INT_UPPER_LIMIT_EXP == 100000

\* the interpreter's limit before set_int_max_str_digits is called
DEFAULT_MAX_STR_DIGITS == 4300

Min(a, b) == IF a < b THEN a ELSE b
Max(a, b) == IF a > b THEN a ELSE b

(***************************************************************************)
(* Integers as numerals                                                    *)
(***************************************************************************)
Pow(e)   == [t |-> "int", sign |-> 1, e |-> e, d |-> 0]      \* 2^e
PowM1(e) == [t |-> "int", sign |-> 1, e |-> e, d |-> -1]     \* 2^e - 1
Zero     == PowM1(0)

IsZero(x) == x.e = 0 /\ x.d = -1

\* unary minus; -0 is 0
Neg(x) == IF IsZero(x) THEN x ELSE [x EXCEPT !.sign = -x.sign]

\* order of magnitudes: 2^e - 1 < 2^e <= 2^(e+1) - 1
MagLess(x, y) == x.e < y.e \/ (x.e = y.e /\ x.d < y.d)

Less(x, y) ==
    IF x.sign = 1 /\ y.sign = 1 THEN MagLess(x, y)
    ELSE IF x.sign = -1 /\ y.sign = -1 THEN MagLess(y, x)
    ELSE x.sign = -1 /\ y.sign = 1

Leq(x, y) == x = y \/ Less(x, y)

InRange(x, lo, hi) == Leq(lo, x) /\ Leq(x, hi)

\* floor(e * log10(2)); 21306/70777 is a convergent of log10(2) and the
\* quotient is exact for every e up to 100700
FloorLog10Pow2(e) == (e * 21306) \div 70777

\* number of decimal digits of the magnitude of x (2^e is no power of ten
\* for e >= 1, so 2^e - 1 has as many digits as 2^e)
NumDigits(x) == FloorLog10Pow2(x.e) + 1

\* ceil(log10(2**e)) as line 27 computes it, e >= 1
CeilLog10Pow2(e) == FloorLog10Pow2(e) + 1

RECURSIVE TwoTo(_)
TwoTo(e) == IF e = 0 THEN 1 ELSE 2 * TwoTo(e - 1)

\* the machine integer of a small numeral
ToInt(x) == x.sign * (TwoTo(x.e) + x.d)

(***************************************************************************)
(* The random source                                                       *)
(***************************************************************************)
\* the points of [lo, hi] the modelled source can return: both ends and the
\* powers of two (and their predecessors) in the middle
Candidates(lo, hi) ==
    LET m == ((IF lo.sign = 1 THEN lo.e ELSE 0) + hi.e) \div 2
        c == IF lo.sign = 1
             THEN <<lo, PowM1(m), Pow(m), hi>>
             ELSE <<lo, Neg(Pow(m)), Zero, Pow(m), hi>>
    IN SelectSeq(c, LAMBDA x : InRange(x, lo, hi))

\* randint with the lower end excluded from the range by one
RandintBelowLo(lo, hi, r) ==
    LET c == <<PowM1(lo.e)>> \o Candidates(lo, hi) IN c[(r % Len(c)) + 1]

\* random.randint(lo, hi): both ends included
Randint(lo, hi, r) ==
    LET c == Candidates(lo, hi) IN c[(r % Len(c)) + 1]

\* a code point of VALID_UTF8_CHARS
ValidUtf8Char(r) ==
    LET c == <<0, 55295, 57344, 1114111, 97>> IN c[(r % Len(c)) + 1]

(***************************************************************************)
(* Values.  Scalars are held inline; a list or a dict is an object of the  *)
(* heap and a value refers to it by Ref(id).                               *)
(***************************************************************************)
None      == [t |-> "null"]
Bool(b)   == [t |-> "bool", b |-> b]
Str(n, c) == [t |-> "str", len |-> n, cyc |-> c]
Ref(id)   == [t |-> "ref", id |-> id]
EmptyStr  == Str(0, <<>>)
MeowStr   == Str(4, <<109, 101, 111, 119>>)

\* float(n): a magnitude above 2^53 is rounded, 2^e - 1 becomes 2^e
ToFloat(x) ==
    [t |-> "float", sign |-> x.sign, e |-> x.e,
     d |-> IF x.e > 53 THEN 0 ELSE x.d]

NegFloat(f) == [f EXCEPT !.sign = -f.sign]

\* Decimal(f"{prefix}{a}.{b}"): the sign is the prefix or the sign of a
DecimalOf(prefixNeg, a, b) ==
    [t |-> "decimal", neg |-> (prefixNeg \/ a.sign = -1),
     ip |-> [a EXCEPT !.sign = 1], fp |-> b]

ListObj(n, c)  == [t |-> "list", len |-> n, cyc |-> c]
DictObj(ks, vs) == [t |-> "dict", keys |-> ks, vals |-> vs]

\* the i-th item of a list object, 1 <= i <= l.len
Elem(l, i) == l.cyc[((i - 1) % Len(l.cyc)) + 1]

\* the items of a list object, as a set
Items(l) == {l.cyc[j] : j \in 1..Min(l.len, Len(l.cyc))}

(***************************************************************************)
(* The expressions of the test_object literal                              *)
(***************************************************************************)
GConst(v)               == [k |-> "const", v |-> v]
GRandint(neg, lo, hi)   == [k |-> "randint", neg |-> neg, lo |-> lo, hi |-> hi]
GAscii(n)               == [k |-> "ascii", n |-> n]
GUtf8(n)                == [k |-> "utf8", n |-> n]
GDecimal(neg, ilo, ihi, flo, fhi) ==
    [k |-> "decimal", neg |-> neg, ilo |-> ilo, ihi |-> ihi,
     flo |-> flo, fhi |-> fhi]
GFloat(neg, lo, hi)     == [k |-> "float", neg |-> neg, lo |-> lo, hi |-> hi]
GChoiceBool             == [k |-> "choicebool"]
\* [item]*times, or [] when items is empty
GList(items, times)     == [k |-> "list", items |-> items, times |-> times]
\* {key: item}, or {} when keys is empty
GDict(keys, items)      == [k |-> "dict", keys |-> keys, items |-> items]
\* [item for _ in range(n)], item a scalar expression
GComp(item, n)          == [k |-> "comp", item |-> item, n |-> n]

\* the limit one power of two too high
INT_UPPER_LIMIT_Doubled == Pow(INT_UPPER_LIMIT_EXP + 1)

INT_UPPER_LIMIT == Pow(INT_UPPER_LIMIT_EXP)

\* value, number of draws from the random source and the longest integer
\* (in digits) turned into text while evaluating a scalar expression
Scalar(g, r) ==
    CASE g.k = "const" -> [val |-> g.v, calls |-> 0, conv |-> 0]
      [] g.k = "randint" ->
           LET v == Randint(g.lo, g.hi, r)
           IN [val |-> IF g.neg THEN Neg(v) ELSE v, calls |-> 1, conv |-> 0]
      [] g.k = "ascii" ->
           [val |-> Str(g.n, [j \in 1..Min(g.n, RngPeriod) |->
                      ToInt(Randint(Zero, PowM1(7), (r + j - 1) % RngPeriod))]),
            calls |-> g.n, conv |-> 0]
      [] g.k = "utf8" ->
           [val |-> Str(g.n, [j \in 1..Min(g.n, RngPeriod) |->
                      ValidUtf8Char((r + j - 1) % RngPeriod)]),
            calls |-> g.n, conv |-> 0]
      [] g.k = "decimal" ->
           LET a == Randint(g.ilo, g.ihi, r)
               b == Randint(g.flo, g.fhi, (r + 1) % RngPeriod)
           IN [val |-> DecimalOf(g.neg, a, b), calls |-> 2,
               conv |-> Max(NumDigits(a), NumDigits(b))]
      [] g.k = "float" ->
           LET f == ToFloat(Randint(g.lo, g.hi, r))
           IN [val |-> IF g.neg THEN NegFloat(f) ELSE f, calls |-> 1,
               conv |-> 0]
      [] g.k = "choicebool" ->
           [val |-> Bool((r % 2) = 0), calls |-> 1, conv |-> 0]

\* the largest number of a sequence of naturals, 0 for the empty sequence
MaxOf(s) ==
    IF Len(s) = 0 THEN 0
    ELSE LET S == {s[j] : j \in 1..Len(s)}
         IN CHOOSE m \in S : \A x \in S : x <= m

\* evaluation of an expression with the heap holding `base` objects:
\* the objects it allocates, its value, its draws and its longest conversion
RECURSIVE Eval(_, _, _)
Eval(g, r, base) ==
    CASE g.k = "comp" ->
           LET c == Scalar(g.item, r).calls
               m == Min(g.n, RngPeriod)
               s == [j \in 1..m |-> Scalar(g.item, (r + (j - 1) * c) % RngPeriod)]
           IN [objs |-> <<ListObj(g.n, [j \in 1..m |-> s[j].val])>>,
               val |-> Ref(base + 1), calls |-> g.n * c,
               conv |-> MaxOf([j \in 1..m |-> s[j].conv])]
      [] g.k = "list" ->
           IF g.items = <<>>
           THEN [objs |-> <<ListObj(0, <<>>)>>, val |-> Ref(base + 1),
                 calls |-> 0, conv |-> 0]
           ELSE LET e == Eval(g.items[1], r, base)
                IN [objs |-> Append(e.objs, ListObj(g.times, <<e.val>>)),
                    val |-> Ref(base + Len(e.objs) + 1),
                    calls |-> e.calls, conv |-> e.conv]
      [] g.k = "dict" ->
           IF g.keys = <<>>
           THEN [objs |-> <<DictObj(<<>>, <<>>)>>, val |-> Ref(base + 1),
                 calls |-> 0, conv |-> 0]
           ELSE LET e == Eval(g.items[1], r, base)
                IN [objs |-> Append(e.objs, DictObj(g.keys, <<e.val>>)),
                    val |-> Ref(base + Len(e.objs) + 1),
                    calls |-> e.calls, conv |-> e.conv]
      [] OTHER ->
           LET s == Scalar(g, r)
           IN [objs |-> <<>>, val |-> s.val, calls |-> s.calls, conv |-> s.conv]

Entry(label, g) == [label |-> label, g |-> g]

\* the dict literal of lines 29-90, one entry per line
TestObjectLiteral == <<
    Entry("boolean true", GConst(Bool(TRUE))),
    Entry("boolean false", GConst(Bool(FALSE))),
    Entry("null", GConst(None)),
    Entry("string 0", GConst(EmptyStr)),
    Entry("string ascii", GAscii(100000)),
    Entry("string utf-8", GUtf8(100000)),
    Entry("resizing integer 1", GRandint(FALSE, Pow(32), PowM1(56))),
    Entry("resizing integer 2", GRandint(FALSE, Pow(64), PowM1(2040))),
    Entry("negative resizing integer 1", GRandint(TRUE, Pow(32), PowM1(56))),
    Entry("negative resizing integer 2", GRandint(TRUE, Pow(64), PowM1(2040))),
    Entry("unsigned 8-bit defined integer", GRandint(FALSE, Zero, PowM1(8))),
    Entry("unsigned 8-bit defined integer 2", GConst(Zero)),
    Entry("unsigned 16-bit defined integer", GRandint(FALSE, Pow(8), PowM1(16))),
    Entry("unsigned 24-bit defined integer", GRandint(FALSE, Pow(16), PowM1(24))),
    Entry("unsigned 32-bit defined integer", GRandint(FALSE, Pow(24), PowM1(32))),
    Entry("unsigned 64-bit defined integer", GRandint(FALSE, Pow(56), PowM1(64))),
    Entry("negative 8-bit defined integer", GRandint(TRUE, Zero, PowM1(8))),
    Entry("negative 16-bit defined integer", GRandint(TRUE, Pow(8), PowM1(16))),
    Entry("negative 24-bit defined integer", GRandint(TRUE, Pow(16), PowM1(24))),
    Entry("negative 32-bit defined integer", GRandint(TRUE, Pow(24), PowM1(32))),
    Entry("negative 64-bit defined integer", GRandint(TRUE, Pow(56), PowM1(64))),
    Entry("big integer", GRandint(FALSE, Pow(2040), INT_UPPER_LIMIT)),
    Entry("negative big integer", GRandint(TRUE, Pow(2040), INT_UPPER_LIMIT)),
    Entry("decimal 1", GDecimal(FALSE, Zero, INT_UPPER_LIMIT, Zero, INT_UPPER_LIMIT)),
    Entry("decimal 2", GDecimal(TRUE, Zero, INT_UPPER_LIMIT, Zero, INT_UPPER_LIMIT)),
    Entry("decimal 3", GFloat(FALSE, Pow(54), Pow(1000))),
    Entry("decimal 4", GFloat(TRUE, Pow(54), Pow(1000))),
    Entry("object 1", GDict(<<"meow">>, <<GConst(MeowStr)>>)),
    Entry("object 2", GDict(<<>>, <<>>)),
    Entry("object 3", GDict(<<"meow">>, <<GDict(<<>>, <<>>)>>)),
    Entry("multi-type array 1", GList(<<>>, 1)),
    Entry("multi-type array 2", GList(<<GList(<<>>, 1)>>, 100)),
    Entry("null array 1", GList(<<GConst(None)>>, 1)),
    Entry("null array 2", GList(<<GConst(None)>>, 10000)),
    Entry("bool array 1", GList(<<GConst(Bool(TRUE))>>, 1)),
    Entry("bool array 2", GList(<<GConst(Bool(TRUE))>>, 10000)),
    Entry("bool array 3", GList(<<GConst(Bool(FALSE))>>, 1)),
    Entry("bool array 4", GList(<<GConst(Bool(FALSE))>>, 10000)),
    Entry("bool array 5", GComp(GChoiceBool, 10000)),
    Entry("string array 1", GComp(GUtf8(100), 1000)),
    Entry("string array 2", GComp(GUtf8(2), 10000)),
    Entry("resizing integer array", GComp(GRandint(TRUE, Pow(32), PowM1(56)), 10000)),
    Entry("negative resizing integer array", GComp(GRandint(TRUE, Pow(32), PowM1(56)), 10000)),
    Entry("unsigned 8-bit defined integer array", GComp(GRandint(FALSE, Zero, PowM1(8)), 10000)),
    Entry("unsigned 16-bit defined integer array", GComp(GRandint(FALSE, Pow(8), PowM1(16)), 10000)),
    Entry("unsigned 24-bit defined integer array", GComp(GRandint(FALSE, Pow(16), PowM1(24)), 10000)),
    Entry("unsigned 32-bit defined integer array", GComp(GRandint(FALSE, Pow(24), PowM1(32)), 10000)),
    Entry("unsigned 64-bit defined integer array", GComp(GRandint(FALSE, Pow(56), PowM1(64)), 10000)),
    Entry("negative 8-bit defined integer array", GComp(GRandint(TRUE, Zero, PowM1(8)), 10000)),
    Entry("negative 16-bit defined integer array", GComp(GRandint(TRUE, Pow(8), PowM1(16)), 10000)),
    Entry("negative 24-bit defined integer array", GComp(GRandint(TRUE, Pow(16), PowM1(24)), 10000)),
    Entry("negative 32-bit defined integer array", GComp(GRandint(TRUE, Pow(24), PowM1(32)), 10000)),
    Entry("negative 64-bit defined integer array", GComp(GRandint(TRUE, Pow(56), PowM1(64)), 10000)),
    Entry("big integer array", GComp(GRandint(FALSE, Pow(2040), INT_UPPER_LIMIT), 100)),
    Entry("negative big integer array", GComp(GRandint(FALSE, Pow(2040), INT_UPPER_LIMIT), 100)),
    Entry("decimal array", GComp(GDecimal(FALSE, Neg(INT_UPPER_LIMIT), INT_UPPER_LIMIT, Zero, INT_UPPER_LIMIT), 100)) >>

(***************************************************************************)
(* Heap operations                                                         *)
(***************************************************************************)
\* the dict bound to the name test_object is the first object of the heap
test_object == 1

IsRef(v) == v.t = "ref"

\* list.append(v)
ListAppend(l, v) ==
    ListObj(l.len + 1, Append([j \in 1..l.len |-> Elem(l, j)], v))

\* d[k] = v: a new key is added last, an existing key keeps its place
DictSet(d, k, v) ==
    IF \E j \in 1..Len(d.keys) : d.keys[j] = k
    THEN DictObj(d.keys, [j \in 1..Len(d.keys) |->
                            IF d.keys[j] = k THEN v ELSE d.vals[j]])
    ELSE DictObj(Append(d.keys, k), Append(d.vals, v))

HasKey(d, k) == \E j \in 1..Len(d.keys) : d.keys[j] = k

\* d[k], for a key of d
DictGet(d, k) == d.vals[CHOOSE j \in 1..Len(d.keys) : d.keys[j] = k]

\* copy.copy(o): a new object holding the same items (shallow)
ShallowCopy(o) == o

\* the objects an object refers to directly
Children(o) ==
    LET vs == IF o.t = "list" THEN o.cyc ELSE o.vals
    IN {vs[j].id : j \in {i \in 1..Len(vs) : IsRef(vs[i])}}

RECURSIVE Closure(_, _)
Closure(S, h) ==
    LET T == S \cup UNION {Children(h[i]) : i \in S}
    IN IF T = S THEN S ELSE Closure(T, h)

\* the objects reachable from object id in one step or more
ReachableFrom(id, h) == Closure(Children(h[id]), h)

\* no container is reachable from itself
Acyclic(h) == \A id \in 1..Len(h) : id \notin ReachableFrom(id, h)

(***************************************************************************)
(* dumps: the external serialization function.  The text of a value is     *)
(* kept as the value with every reference replaced by what it refers to.   *)
(***************************************************************************)
RECURSIVE Deep(_, _)
Deep(v, h) ==
    IF ~IsRef(v) THEN v
    ELSE LET o == h[v.id]
         IN IF o.t = "list"
            THEN ListObj(o.len, [j \in 1..Len(o.cyc) |-> Deep(o.cyc[j], h)])
            ELSE DictObj(o.keys, [j \in 1..Len(o.vals) |-> Deep(o.vals[j], h)])

\* the longest run of digits written for a number of a serialized value;
\* a decimal is written as "{integer}.{integer}" (comment of line 26)
RECURSIVE MaxDigits(_)
MaxDigits(v) ==
    CASE v.t = "int"     -> NumDigits(v)
      [] v.t = "decimal" -> NumDigits(v.ip) + 1 + NumDigits(v.fp)
      [] v.t = "list"    -> MaxOf([j \in 1..Len(v.cyc) |-> MaxDigits(v.cyc[j])])
      [] v.t = "dict"    -> MaxOf([j \in 1..Len(v.vals) |-> MaxDigits(v.vals[j])])
      [] OTHER           -> 0

\* dumps(v): ok is false when the value holds a reference cycle or a number
\* longer than the configured limit
Dumps(v, h, limit) ==
    IF IsRef(v) /\ ~Acyclic(h)
    THEN [ok |-> FALSE, text |-> None, conv |-> 0]
    ELSE LET text == Deep(v, h)
             conv == MaxDigits(text)
         IN [ok |-> conv <= limit, text |-> text, conv |-> conv]

\* print(text) and print(text, end="")
Record(text, end) == [text |-> text, end |-> end]

(***************************************************************************)
(* The run                                                                 *)
(***************************************************************************)
Init ==
    /\ pc = "config"
    /\ intMaxStrDigits = DEFAULT_MAX_STR_DIGITS
    /\ rng \in 0..(RngPeriod - 1)
    /\ heap = <<DictObj(<<>>, <<>>)>>
    /\ multi_type_array_3 = 0
    /\ it = 0
    /\ out = <<>>
    /\ emitted = <<>>
    /\ maxConv = 0
    /\ failed = 0

\* line 27: set_int_max_str_digits(2*ceil(log10(INT_UPPER_LIMIT))+1)
ConfiguredLimit == 2 * CeilLog10Pow2(INT_UPPER_LIMIT_EXP) + 1

\* the limit is left as the interpreter starts with
SetLimitSkipped ==
    /\ pc = "config"
    /\ pc' = "build"
    /\ UNCHANGED <<intMaxStrDigits, rng, heap, multi_type_array_3, it, out,
                   emitted, maxConv, failed>>

SetLimit ==
    /\ pc = "config"
    /\ intMaxStrDigits' = ConfiguredLimit
    /\ pc' = "build"
    /\ UNCHANGED <<rng, heap, multi_type_array_3, it, out, emitted, maxConv, failed>>

\* lines 29-90: the next entry of the literal is evaluated and stored
BuildEntry ==
    /\ pc = "build"
    /\ LET i == Len(heap[test_object].keys) + 1
           e == Eval(TestObjectLiteral[i].g, rng, Len(heap))
       IN /\ maxConv' = Max(maxConv, e.conv)
          /\ IF e.conv > intMaxStrDigits
             THEN /\ pc' = "aborted"
                  /\ UNCHANGED <<rng, heap>>
             ELSE /\ heap' = [heap \o e.objs EXCEPT ![test_object] =
                                DictSet(@, TestObjectLiteral[i].label, e.val)]
                  /\ rng' = (rng + e.calls) % RngPeriod
                  /\ pc' = IF i = Len(TestObjectLiteral) THEN "array3" ELSE "build"
    /\ UNCHANGED <<intMaxStrDigits, multi_type_array_3, it, out, emitted, failed>>

\* line 92: multi_type_array_3 = [test_object[x] for x in test_object]
BuildArray3 ==
    /\ pc = "array3"
    /\ heap' = Append(heap, ListObj(Len(heap[test_object].keys),
                                    heap[test_object].vals))
    /\ multi_type_array_3' = Len(heap) + 1
    /\ pc' = "append"
    /\ UNCHANGED <<intMaxStrDigits, rng, it, out, emitted, maxConv, failed>>

\* multi_type_array_3.append(multi_type_array_3): the list itself, no copy
AppendSelf ==
    /\ pc = "append"
    /\ heap' = [heap EXCEPT ![multi_type_array_3] =
                  ListAppend(@, Ref(multi_type_array_3))]
    /\ pc' = "store"
    /\ UNCHANGED <<intMaxStrDigits, rng, multi_type_array_3, it, out, emitted,
                   maxConv, failed>>

\* line 93: multi_type_array_3.append(copy(multi_type_array_3))
AppendCopy ==
    /\ pc = "append"
    /\ LET c == Len(heap) + 1
       IN heap' = [Append(heap, ShallowCopy(heap[multi_type_array_3]))
                     EXCEPT ![multi_type_array_3] = ListAppend(@, Ref(c))]
    /\ pc' = "store"
    /\ UNCHANGED <<intMaxStrDigits, rng, multi_type_array_3, it, out, emitted,
                   maxConv, failed>>

\* "object 4" is stored together with "multi-type array 3", before the loop
StoreArray3AndObject4 ==
    /\ pc = "store"
    /\ LET c == Len(heap) + 1
           d == DictSet(heap[test_object], "multi-type array 3",
                        Ref(multi_type_array_3))
       IN heap' = [Append(heap, d) EXCEPT ![test_object] =
                     DictSet(d, "object 4", Ref(c))]
    /\ pc' = "loop"
    /\ it' = 1
    /\ UNCHANGED <<intMaxStrDigits, rng, multi_type_array_3, out, emitted,
                   maxConv, failed>>

\* line 94: test_object["multi-type array 3"] = multi_type_array_3
StoreArray3 ==
    /\ pc = "store"
    /\ heap' = [heap EXCEPT ![test_object] =
                  DictSet(@, "multi-type array 3", Ref(multi_type_array_3))]
    /\ pc' = "loop"
    /\ it' = 1
    /\ UNCHANGED <<intMaxStrDigits, rng, multi_type_array_3, out, emitted,
                   maxConv, failed>>

\* lines 96-97: print(dumps(test_object[x])) for the next key x
EmitEntry ==
    /\ pc = "loop"
    /\ it <= Len(heap[test_object].keys)
    /\ LET x == heap[test_object].keys[it]
           s == Dumps(DictGet(heap[test_object], x), heap, intMaxStrDigits)
       IN /\ maxConv' = Max(maxConv, s.conv)
          /\ IF s.ok
             THEN /\ out' = Append(out, Record(s.text, "\n"))
                  /\ emitted' = Append(emitted, x)
                  /\ it' = it + 1
                  /\ UNCHANGED <<pc, failed>>
             ELSE /\ pc' = "aborted"
                  /\ failed' = it
                  /\ UNCHANGED <<out, emitted, it>>
    /\ UNCHANGED <<intMaxStrDigits, rng, heap, multi_type_array_3>>

\* the exception of dumps is swallowed and the loop goes on
EmitEntrySkipOnFail ==
    /\ pc = "loop"
    /\ it <= Len(heap[test_object].keys)
    /\ failed' = it
    /\ it' = it + 1
    /\ UNCHANGED <<pc, intMaxStrDigits, rng, heap, multi_type_array_3, out,
                   emitted, maxConv>>

\* lines 96-97: dumps raises on the next entry, the exception is not caught
EmitEntryFail ==
    /\ pc = "loop"
    /\ it <= Len(heap[test_object].keys)
    /\ pc' = "aborted"
    /\ failed' = it
    /\ UNCHANGED <<intMaxStrDigits, rng, heap, multi_type_array_3, it, out,
                   emitted, maxConv>>

\* test_object["object 4"] = test_object: the corpus itself, no copy
StoreObject4Alias ==
    /\ pc = "loop"
    /\ it > Len(heap[test_object].keys)
    /\ heap' = [heap EXCEPT ![test_object] =
                  DictSet(@, "object 4", Ref(test_object))]
    /\ pc' = "final"
    /\ UNCHANGED <<intMaxStrDigits, rng, multi_type_array_3, it, out, emitted,
                   maxConv, failed>>

\* the copy is stored under the label of an entry that exists already
StoreObject4OverArray3 ==
    /\ pc = "loop"
    /\ it > Len(heap[test_object].keys)
    /\ LET c == Len(heap) + 1
       IN heap' = [Append(heap, ShallowCopy(heap[test_object]))
                     EXCEPT ![test_object] =
                       DictSet(@, "multi-type array 3", Ref(c))]
    /\ pc' = "final"
    /\ UNCHANGED <<intMaxStrDigits, rng, multi_type_array_3, it, out, emitted,
                   maxConv, failed>>

\* line 99, after the loop: test_object["object 4"] = copy(test_object)
StoreObject4 ==
    /\ pc = "loop"
    /\ it > Len(heap[test_object].keys)
    /\ LET c == Len(heap) + 1
       IN heap' = [Append(heap, ShallowCopy(heap[test_object]))
                     EXCEPT ![test_object] = DictSet(@, "object 4", Ref(c))]
    /\ pc' = "final"
    /\ UNCHANGED <<intMaxStrDigits, rng, multi_type_array_3, it, out, emitted,
                   maxConv, failed>>

\* print(dumps(test_object)): the final record ends with a newline too
FinalPrintWithNewline ==
    /\ pc = "final"
    /\ LET s == Dumps(Ref(test_object), heap, intMaxStrDigits)
       IN /\ maxConv' = Max(maxConv, s.conv)
          /\ out' = Append(out, Record(s.text, "\n"))
          /\ pc' = "done"
    /\ UNCHANGED <<intMaxStrDigits, rng, heap, multi_type_array_3, it, emitted,
                   failed>>

\* line 101: print(dumps(test_object), end="")
FinalPrint ==
    /\ pc = "final"
    /\ LET s == Dumps(Ref(test_object), heap, intMaxStrDigits)
       IN /\ maxConv' = Max(maxConv, s.conv)
          /\ IF s.ok
             THEN /\ out' = Append(out, Record(s.text, ""))
                  /\ pc' = "done"
                  /\ UNCHANGED failed
             ELSE /\ pc' = "aborted"
                  /\ failed' = Len(out) + 1
                  /\ UNCHANGED out
    /\ UNCHANGED <<intMaxStrDigits, rng, heap, multi_type_array_3, it, emitted>>

\* line 101: dumps raises on the whole corpus
FinalPrintFail ==
    /\ pc = "final"
    /\ pc' = "aborted"
    /\ failed' = Len(out) + 1
    /\ UNCHANGED <<intMaxStrDigits, rng, heap, multi_type_array_3, it, out,
                   emitted, maxConv>>

Next ==
    \/ SetLimit
    \/ BuildEntry
    \/ BuildArray3
    \/ AppendCopy
    \/ StoreArray3
    \/ EmitEntry
    \/ EmitEntryFail
    \/ StoreObject4
    \/ FinalPrint
    \/ FinalPrintFail

Spec == Init /\ [][Next]_vars

(***************************************************************************)
(* Properties                                                              *)
(***************************************************************************)
Corpus == heap[test_object]

\* the labels of the literal, in the order of the source
LiteralLabels == [i \in 1..Len(TestObjectLiteral) |-> TestObjectLiteral[i].label]

\* the magnitude of an integer value
Abs(x) == [x EXCEPT !.sign = 1]

AfterConstruction == pc \notin {"config", "build"}

\* C1: in a run where no serialization fails, the output is one record per
\* label of the corpus as it is when the loop starts (the 56 entries of the
\* literal, then "multi-type array 3"), in insertion order, each the
\* serialization of that label's value alone followed by one newline, then
\* one last record, the serialization of the whole corpus, with no newline;
\* nothing is written after it.
C1_EmissionStream ==
    pc = "done" =>
        /\ failed = 0
        /\ Len(TestObjectLiteral) = 56
        /\ emitted = Append(LiteralLabels, "multi-type array 3")
        /\ Len(out) = Len(emitted) + 1
        /\ \A i \in 1..Len(emitted) :
              out[i] = Record(Deep(DictGet(Corpus, emitted[i]), heap), "\n")
        /\ out[Len(out)] = Record(Deep(Ref(test_object), heap), "")
        /\ ~ENABLED Next

C1_Witness ==
    /\ pc = "done"
    /\ Len(out) = 58
    /\ out[57].end = "\n"
    /\ out[58].end = ""

\* C2: the mapping of the final record has as keys exactly the labels of
\* the per-entry records plus one more key, "object 4"; the value of that
\* key was never emitted as a per-entry record and is no element of
\* "multi-type array 3".
C2_FinalRecordKeys ==
    pc = "done" =>
        LET final == out[Len(out)].text
            o4    == DictGet(final, "object 4")
        IN /\ final.t = "dict"
           /\ Len(final.keys) = Len(emitted) + 1
           /\ {final.keys[j] : j \in 1..Len(final.keys)} =
                 {emitted[j] : j \in 1..Len(emitted)} \cup {"object 4"}
           /\ \A j \in 1..Len(emitted) : emitted[j] # "object 4"
           /\ \A j \in 1..(Len(out) - 1) : out[j].text # o4
           /\ o4 \notin Items(DictGet(final, "multi-type array 3"))
           /\ DictGet(Corpus, "object 4") \notin Items(heap[multi_type_array_3])

C2_Witness ==
    /\ pc = "done"
    /\ HasKey(out[Len(out)].text, "object 4")
    /\ Len(out[Len(out)].text.keys) = 58

\* C3: when dumps fails on the i-th entry (or on the whole corpus) the run
\* stops there: the records of the entries before it are all that is
\* written, no record stands in for the failing one, and no step follows.
C3_FailureAborts ==
    failed > 0 =>
        /\ pc = "aborted"
        /\ Len(out) = failed - 1
        /\ emitted = SubSeq(Corpus.keys, 1, failed - 1)
        /\ \A j \in 1..Len(out) :
              out[j] = Record(Deep(Corpus.vals[j], heap), "\n")
        /\ ~ENABLED Next

C3_Witness ==
    /\ pc = "aborted"
    /\ failed = 23
    /\ Len(out) = 22

\* the integers held by a scalar value
IntsOfScalar(v) ==
    CASE v.t = "int"     -> {v}
      [] v.t = "decimal" -> {v.ip, v.fp}
      [] OTHER           -> {}

\* every integer the corpus holds
IntsOfHeap(h) ==
    UNION {UNION {IntsOfScalar(w) : w \in
                    (IF h[i].t = "list" THEN Items(h[i])
                     ELSE {h[i].vals[j] : j \in 1..Len(h[i].vals)})}
           : i \in 1..Len(h)}

\* C4: the digit limit is 2*ceil(log10(INT_UPPER_LIMIT))+1 from before the
\* first conversion between an integer and text; it is at least the number
\* of digits of every integer the builder samples, and no conversion of
\* construction or emission is longer than it.
C4_DigitLimit ==
    /\ (maxConv > 0 \/ pc # "config") =>
          intMaxStrDigits = 2 * CeilLog10Pow2(INT_UPPER_LIMIT_EXP) + 1
    /\ \A x \in IntsOfHeap(heap) : NumDigits(x) <= intMaxStrDigits
    /\ maxConv <= intMaxStrDigits
    /\ (pc = "aborted" => failed > 0)

C4_Witness ==
    /\ pc = "done"
    /\ maxConv > DEFAULT_MAX_STR_DIGITS
    /\ \E x \in IntsOfHeap(heap) : NumDigits(x) = 30103

\* C5: the value under "object 4" is a snapshot of the corpus taken before
\* the key is added: its keys are the keys the corpus had just before the
\* insertion ("multi-type array 3" among them), "object 4" is not one of
\* them, and no container of the run is ever reachable from itself.
C5_SnapshotNoCycle ==
    [][ /\ Acyclic(heap) /\ Acyclic(heap')
        /\ (~HasKey(Corpus, "object 4") /\ HasKey(heap'[test_object], "object 4")) =>
              LET v == DictGet(heap'[test_object], "object 4")
              IN /\ IsRef(v)
                 /\ v.id # test_object
                 /\ heap'[v.id].t = "dict"
                 /\ heap'[v.id].keys = Corpus.keys
                 /\ heap'[v.id].vals = Corpus.vals
                 /\ HasKey(heap'[v.id], "multi-type array 3")
                 /\ ~HasKey(heap'[v.id], "object 4")
        /\ HasKey(Corpus, "object 4") =>
              ~HasKey(heap[DictGet(Corpus, "object 4").id], "object 4")
      ]_vars

C5_Witness ==
    /\ HasKey(Corpus, "object 4")
    /\ Len(heap[DictGet(Corpus, "object 4").id].keys) = 57
    /\ Acyclic(heap)

\* C6: "multi-type array 3" holds the values of the entries before it, one
\* per entry in insertion order, and then one last element, a list equal
\* item for item to that prefix (a copy taken before the append, so it
\* holds no nested copy); its length is the number of prior entries plus 1.
C6_Array3Shape ==
    HasKey(Corpus, "multi-type array 3") =>
        LET v    == DictGet(Corpus, "multi-type array 3")
            a    == heap[v.id]
            n    == Len(TestObjectLiteral)
            last == Elem(a, n + 1)
        IN /\ Corpus.keys[n + 1] = "multi-type array 3"
           /\ a.t = "list"
           /\ a.len = n + 1
           /\ \A i \in 1..n : Elem(a, i) = Corpus.vals[i]
           /\ IsRef(last)
           /\ last.id # v.id
           /\ heap[last.id].t = "list"
           /\ heap[last.id].len = n
           /\ \A i \in 1..n : Elem(heap[last.id], i) = Elem(a, i)
           /\ Deep(last, heap) =
                 ListObj(n, [i \in 1..n |-> Deep(Corpus.vals[i], heap)])

C6_Witness ==
    /\ HasKey(Corpus, "multi-type array 3")
    /\ heap[multi_type_array_3].len = 57
    /\ heap[Elem(heap[multi_type_array_3], 57).id].len = 56

\* the integer bands: scalar label, array label, length of the array
IntegerBands == <<
    <<"resizing integer 1", "resizing integer array", 10000>>,
    <<"negative resizing integer 1", "negative resizing integer array", 10000>>,
    <<"unsigned 8-bit defined integer", "unsigned 8-bit defined integer array", 10000>>,
    <<"unsigned 16-bit defined integer", "unsigned 16-bit defined integer array", 10000>>,
    <<"unsigned 24-bit defined integer", "unsigned 24-bit defined integer array", 10000>>,
    <<"unsigned 32-bit defined integer", "unsigned 32-bit defined integer array", 10000>>,
    <<"unsigned 64-bit defined integer", "unsigned 64-bit defined integer array", 10000>>,
    <<"negative 8-bit defined integer", "negative 8-bit defined integer array", 10000>>,
    <<"negative 16-bit defined integer", "negative 16-bit defined integer array", 10000>>,
    <<"negative 24-bit defined integer", "negative 24-bit defined integer array", 10000>>,
    <<"negative 32-bit defined integer", "negative 32-bit defined integer array", 10000>>,
    <<"negative 64-bit defined integer", "negative 64-bit defined integer array", 10000>>,
    <<"big integer", "big integer array", 100>>,
    <<"negative big integer", "negative big integer array", 100>> >>

\* the expression the literal gives a label
LiteralOf(label) ==
    TestObjectLiteral[CHOOSE i \in 1..Len(TestObjectLiteral) :
                        TestObjectLiteral[i].label = label].g

\* x is a value the scalar expression g can take
InBand(x, g) ==
    /\ x.t = "int"
    /\ InRange(Abs(x), g.lo, g.hi)
    /\ x = IF g.neg THEN Neg(Abs(x)) ELSE Abs(x)

\* C7: every integer band with a scalar entry L has an array entry
\* "L array" whose elements all lie in the range and have the sign the
\* scalar entry can take, 10,000 of them (100 for the big-integer bands);
\* the elements of "resizing integer array" are positive and those of
\* "negative big integer array" are negative.
C7_ArrayBands ==
    AfterConstruction =>
        /\ \A b \in 1..Len(IntegerBands) :
              /\ HasKey(Corpus, IntegerBands[b][2])
              /\ LET a == heap[DictGet(Corpus, IntegerBands[b][2]).id]
                 IN /\ a.len = IntegerBands[b][3]
                    /\ \A x \in Items(a) : InBand(x, LiteralOf(IntegerBands[b][1]))
        /\ \A x \in Items(heap[DictGet(Corpus, "resizing integer array").id]) :
              x.sign = 1 /\ ~IsZero(x)
        /\ \A x \in Items(heap[DictGet(Corpus, "negative big integer array").id]) :
              x.sign = -1

\* C8 as stated: a "big integer" v satisfies 2^2040 <= v < 2^100000 and a
\* "negative big integer" is -w with 2^2040 <= w < 2^100000; 2^100000
\* itself is never produced.
C8_BigIntegerHalfOpen ==
    /\ HasKey(Corpus, "big integer") =>
          LET v == DictGet(Corpus, "big integer")
          IN v.sign = 1 /\ Leq(Pow(2040), v) /\ Less(v, Pow(100000))
    /\ HasKey(Corpus, "negative big integer") =>
          LET v == DictGet(Corpus, "negative big integer")
          IN v.sign = -1 /\ Leq(Pow(2040), Abs(v)) /\ Less(Abs(v), Pow(100000))

\* C8 amended: a "big integer" v satisfies 2^2040 <= v <= 2^100000 and a
\* "negative big integer" is -w with 2^2040 <= w <= 2^100000: the upper
\* limit is included.
C8_BigIntegerClosed ==
    /\ HasKey(Corpus, "big integer") =>
          LET v == DictGet(Corpus, "big integer")
          IN v.sign = 1 /\ Leq(Pow(2040), v) /\ Leq(v, Pow(100000))
    /\ HasKey(Corpus, "negative big integer") =>
          LET v == DictGet(Corpus, "negative big integer")
          IN v.sign = -1 /\ Leq(Pow(2040), Abs(v)) /\ Leq(Abs(v), Pow(100000))

C8_Witness ==
    /\ HasKey(Corpus, "negative big integer")
    /\ DictGet(Corpus, "big integer") = Pow(100000)

\* the bit-width entries: width, exponent of the previous width
BitWidths == << <<"16", 8, 16>>, <<"24", 16, 24>>, <<"32", 24, 32>>, <<"64", 32, 64>> >>

\* C9: the magnitude of an unsigned or negative 16-, 24-, 32- or 64-bit
\* defined integer is above the maximum of the previous width (2^8-1,
\* 2^16-1, 2^24-1, 2^32-1) and at most the maximum of its own width; the
\* magnitude of an 8-bit entry is in [0, 255]; a negative entry is the
\* negation of such a magnitude.
C9_BitWidthBands ==
    /\ \A b \in 1..Len(BitWidths) :
          \A neg \in BOOLEAN :
             LET label == (IF neg THEN "negative " ELSE "unsigned ")
                             \o BitWidths[b][1] \o "-bit defined integer"
             IN HasKey(Corpus, label) =>
                   LET v == DictGet(Corpus, label)
                   IN /\ v.t = "int"
                      /\ Less(PowM1(BitWidths[b][2]), Abs(v))
                      /\ Leq(Abs(v), PowM1(BitWidths[b][3]))
                      /\ v = IF neg THEN Neg(Abs(v)) ELSE Abs(v)
    /\ \A label \in {"unsigned 8-bit defined integer",
                     "unsigned 8-bit defined integer 2",
                     "negative 8-bit defined integer"} :
          HasKey(Corpus, label) =>
             LET v == DictGet(Corpus, label)
             IN /\ v.t = "int"
                /\ Leq(Zero, Abs(v))
                /\ Leq(Abs(v), PowM1(8))
                /\ v = IF label = "negative 8-bit defined integer"
                       THEN Neg(Abs(v)) ELSE Abs(v)

C9_Witness ==
    /\ HasKey(Corpus, "negative 64-bit defined integer")
    /\ DictGet(Corpus, "negative 64-bit defined integer") = Neg(Pow(56))
    /\ HasKey(Corpus, "unsigned 16-bit defined integer")

\* C10: after the construction the corpus changes in two steps only, each
\* adding one key ("multi-type array 3" before any record is written,
\* "object 4" after the last per-entry record and before the final one);
\* no step changes, removes or reorders an entry that exists, the corpus is
\* not modified while the loop iterates, and in the final record the value
\* of each label is the value written as that label's own record.
C10_Frame ==
    [][ AfterConstruction =>
          LET old == Corpus
              new == heap'[test_object]
              n   == Len(old.keys)
          IN /\ \/ new.keys = old.keys
                \/ /\ new.keys = Append(old.keys, "multi-type array 3")
                   /\ out = <<>> /\ out' = <<>>
                   /\ n = Len(TestObjectLiteral)
                \/ /\ new.keys = Append(old.keys, "object 4")
                   /\ Len(out) = n /\ out' = out
                   /\ n = Len(TestObjectLiteral) + 1
             /\ \A j \in 1..n :
                   /\ new.vals[j] = old.vals[j]
                   /\ Deep(new.vals[j], heap') = Deep(old.vals[j], heap)
             /\ (pc = "loop" /\ it <= n) => heap' = heap
             /\ pc' = "done" =>
                   /\ Len(new.keys) = Len(TestObjectLiteral) + 2
                   /\ \A j \in 1..Len(emitted') :
                         DictGet(out'[Len(out')].text, emitted'[j]) = out'[j].text
      ]_vars

C10_Witness ==
    /\ pc = "done"
    /\ Len(Corpus.keys) = 58
    /\ Corpus.keys[57] = "multi-type array 3"
    /\ Corpus.keys[58] = "object 4"

====
